---- MODULE Spec2Model ----
(***************************************************************************)
(* Model of the oil-and-rope registration slice: the `language` context    *)
(* processor (core/context_processors.py) and the login, register and      *)
(* activate views as the test suite (tests/registration/test_views.py)     *)
(* drives them through the Django test client.                             *)
(***************************************************************************)
EXTENDS Integers, FiniteSets, Sequences, TLC

\* ---------------------------------------------------------------- bounds
NumUsers == 2

\* ------------------------------------------------------------ data domains
Pks == 1..NumUsers
Anonymous == 0                       \* pk of AnonymousUser / omitted username
NoValue == ""                        \* a form field left out of the POST data
Passwords == {"secret"}              \* passwords users choose
Typos == {"typo"}                    \* any other string typed into a password box
Emails == {"a@example.com"}
Languages == {"en", "es"}            \* language codes
ProfileLanguages == Languages \cup {""}
NoAttribute == "<AttributeError>"    \* AnonymousUser has no `profile`
DoesNotExist == "<RelatedObjectDoesNotExist>"  \* no Profile row for the user
Fields == {"username", "email", "password1", "password2"}

LANGUAGE_CODE == "en"                \* settings.LANGUAGE_CODE, the global default

VARIABLES users, session, outbox, response

vars == <<users, session, outbox, response>>

\* ------------------------------------------------------------ messages
required_error == "This field is required."
\* the mismatch error in another wording
mismatch_error_reworded == "The two password fields did not match."
mismatch_error == "The two password fields didn't match."
duplicate_error == "A user with that username already exists."
\* the two sentences joined without the full stop between them
warn_message_joined == "Seems like this user is inactive" \o " " \o "Have you confirmed your email?"
warn_message == "Seems like this user is inactive" \o ". " \o "Have you confirmed your email?"
\* the two sentences joined without the closing full stop
succes_message_open == "User created!" \o " " \o "Please confirm your email"
succes_message == "User created!" \o " " \o "Please confirm your email" \o "."
\* the confirmation without its exclamation mark
confirmed_message_flat == "Your email has been confirmed"
confirmed_message == "Your email has been confirmed!"
NoMessage == ""
login_template == "registration/login.html"
register_template == "registration/register.html"
page_template == "page.html"
NoTemplate == ""
ActivateAccountView_url == "ActivateAccountView.url"
success_url == "success_url"
NoRedirect == ""

\* ------------------------------------------------------------ database rows
NoUser == [exists |-> FALSE, is_active |-> FALSE, password |-> NoValue, profile |-> DoesNotExist]

UserRow(active, pw) == [exists |-> TRUE, is_active |-> active, password |-> pw, profile |-> DoesNotExist]

Exists(u) == u \in Pks /\ users[u].exists

\* ------------------------------------------------------------ the request
AnonymousUser == [pk |-> Anonymous, is_authenticated |-> FALSE, profile |-> NoAttribute]

\* get_user(client): the user of the client's session
get_user(s) ==
    IF s = Anonymous THEN AnonymousUser
    ELSE [pk |-> s, is_authenticated |-> TRUE, profile |-> users[s].profile]

NoData == [username |-> Anonymous, email |-> NoValue, password |-> NoValue,
           password1 |-> NoValue, password2 |-> NoValue, token |-> <<Anonymous, NoValue>>]

Request(s, data) == [user |-> get_user(s), POST |-> data]

\* ------------------------------------------------------- context processor
Return(lan, read) == [kind |-> "return", lan |-> lan, read |-> read]
Raise(exc) == [kind |-> "raise", lan |-> exc, read |-> "profile"]
NoContext == [kind |-> "none", lan |-> NoValue, read |-> "none"]

\* the profile looked up before the authentication test
language_hoisted(request) ==
    LET profile == request.user.profile
    IN  IF profile \in {NoAttribute, DoesNotExist}
        THEN Raise(profile)
        ELSE IF request.user.is_authenticated
             THEN Return(profile, "profile")
             ELSE Return(LANGUAGE_CODE, "settings")

\* the authentication test inverted
language_inverted(request) ==
    IF ~request.user.is_authenticated
    THEN LET profile == request.user.profile
         IN  IF profile \in {NoAttribute, DoesNotExist}
             THEN Raise(profile)
             ELSE Return(profile, "profile")
    ELSE Return(LANGUAGE_CODE, "settings")

\* no authentication test: the profile language for every request
language_unguarded(request) ==
    LET profile == request.user.profile
    IN  IF profile \in {NoAttribute, DoesNotExist}
        THEN Raise(profile)
        ELSE Return(profile, "profile")

language(request) ==
    IF request.user.is_authenticated
    THEN LET profile == request.user.profile
         IN  IF profile \in {NoAttribute, DoesNotExist}
             THEN Raise(profile)
             ELSE Return(profile, "profile")
    ELSE Return(LANGUAGE_CODE, "settings")

\* ------------------------------------------------------------ responses
NoErrors == [f \in Fields |-> {}]

NoResponse ==
    [op |-> "none", status |-> 0, template |-> NoTemplate, redirect |-> NoRedirect,
     message |-> NoMessage, errors |-> NoErrors,
     wsgi_request |-> [user |-> AnonymousUser, POST |-> NoData], context |-> NoContext]

\* A template render runs the context processors; an exception there is a 500.
Render(op, template, request, message, errors) ==
    LET context == language(request)
    IN  IF context.kind = "raise"
        THEN [op |-> op, status |-> 500, template |-> NoTemplate, redirect |-> NoRedirect,
              message |-> message, errors |-> errors,
              wsgi_request |-> request, context |-> context]
        ELSE [op |-> op, status |-> 200, template |-> template, redirect |-> NoRedirect,
              message |-> message, errors |-> errors,
              wsgi_request |-> request, context |-> context]

Redirect(op, to, request, message) ==
    [op |-> op, status |-> 302, template |-> NoTemplate, redirect |-> to,
     message |-> message, errors |-> NoErrors,
     wsgi_request |-> request, context |-> NoContext]

NotFound(op, request) ==
    [op |-> op, status |-> 404, template |-> NoTemplate, redirect |-> NoRedirect,
     message |-> NoMessage, errors |-> NoErrors,
     wsgi_request |-> request, context |-> NoContext]

\* ------------------------------------------------------------ tokens
make_token(u) == <<u, users[u].password>>
BadToken == <<Anonymous, NoValue>>
check_token(u, token) == Exists(u) /\ token = make_token(u)
Tokens == {make_token(u) : u \in {v \in Pks : users[v].exists}} \cup {BadToken}

\* ------------------------------------------------------------ initial state
Init ==
    /\ users = [u \in Pks |-> NoUser]
    /\ session = Anonymous
    /\ outbox = 0
    /\ response = NoResponse

\* ------------------------------------------------------------ test fixtures
\* baker.make(get_user_model()) followed by set_password / is_active / save()
baker_make(u, active, pw) ==
    /\ ~users[u].exists
    /\ users' = [users EXCEPT ![u] = UserRow(active, pw)]
    /\ UNCHANGED <<session, outbox, response>>

\* the Profile row of a user is written (created or its language changed)
save_profile(u, lan) ==
    /\ users[u].exists
    /\ users' = [users EXCEPT ![u].profile = lan]
    /\ UNCHANGED <<session, outbox, response>>

\* self.client.force_login(user), for an active user as in the tests: the
\* session of an inactive user resolves to AnonymousUser
force_login(u) ==
    /\ users[u].exists
    /\ users[u].is_active
    /\ session' = u
    /\ UNCHANGED <<users, outbox, response>>

\* ------------------------------------------------------------ views
\* GET of any template-rendered page of the site, for the current session
PageGet ==
    /\ response' = Render("page_get", page_template, Request(session, NoData), NoMessage, NoErrors)
    /\ UNCHANGED <<users, session, outbox>>

LoginGet ==
    LET request == Request(session, NoData)
    IN  /\ response' = IF request.user.is_authenticated
                       THEN Redirect("login_get", success_url, request, NoMessage)
                       ELSE Render("login_get", login_template, request, NoMessage, NoErrors)
        /\ UNCHANGED <<users, session, outbox>>

\* valid credentials accepted without establishing the session
LoginPost_no_session(username, password) ==
    LET request == Request(session, [NoData EXCEPT !.username = username, !.password = password])
        credentials_ok == Exists(username) /\ password # NoValue
                          /\ users[username].password = password
    IN  /\ UNCHANGED <<users, outbox, session>>
        /\ IF request.user.is_authenticated \/ (credentials_ok /\ users[username].is_active)
           THEN response' = Redirect("login_post", success_url, request, NoMessage)
           ELSE response' = Render("login_post", login_template, request,
                                   IF credentials_ok THEN warn_message ELSE NoMessage, NoErrors)

\* A POST of an already authenticated session is redirected like its GET. A
\* wrong password for an inactive user may or may not be answered with the
\* warning: the view looks the user up by username.
LoginPost(username, password) ==
    LET request == Request(session, [NoData EXCEPT !.username = username, !.password = password])
        credentials_ok == Exists(username) /\ password # NoValue
                          /\ users[username].password = password
    IN  /\ UNCHANGED <<users, outbox>>
        /\ IF request.user.is_authenticated
           THEN /\ response' = Redirect("login_post", success_url, request, NoMessage)
                /\ session' = session
           ELSE IF credentials_ok /\ users[username].is_active
           THEN /\ response' = Redirect("login_post", success_url, request, NoMessage)
                /\ session' = username
           ELSE IF credentials_ok
           THEN /\ response' = Render("login_post", login_template, request, warn_message, NoErrors)
                /\ session' = session
           ELSE /\ session' = session
                /\ \E message \in IF Exists(username) /\ ~users[username].is_active
                                  THEN {NoMessage, warn_message} ELSE {NoMessage} :
                       response' = Render("login_post", login_template, request, message, NoErrors)

SignUpGet ==
    LET request == Request(session, NoData)
    IN  /\ response' = IF request.user.is_authenticated
                       THEN Redirect("register_get", success_url, request, NoMessage)
                       ELSE Render("register_get", register_template, request, NoMessage, NoErrors)
        /\ UNCHANGED <<users, session, outbox>>

\* the field errors of the registration form for the POST data
form_errors(username, email, password1, password2) ==
    [f \in Fields |->
        (IF \/ f = "username" /\ username = Anonymous
            \/ f = "email" /\ email = NoValue
            \/ f = "password1" /\ password1 = NoValue
            \/ f = "password2" /\ password2 = NoValue
         THEN {required_error} ELSE {})
        \cup
        (IF f = "username" /\ Exists(username) THEN {duplicate_error} ELSE {})
        \cup
        (IF f = "password2" /\ password1 # NoValue /\ password2 # NoValue /\ password1 # password2
         THEN {mismatch_error} ELSE {})]

SignUpPost(username, email, password1, password2) ==
    LET request == Request(session, [NoData EXCEPT !.username = username, !.email = email,
                                                   !.password1 = password1, !.password2 = password2])
        errors == form_errors(username, email, password1, password2)
    IN  /\ UNCHANGED <<session>>
        /\ IF request.user.is_authenticated
           THEN /\ response' = Redirect("register_post", success_url, request, NoMessage)
                /\ UNCHANGED <<users, outbox>>
           ELSE IF errors # NoErrors
           THEN /\ response' = Render("register_post", register_template, request, NoMessage, errors)
                /\ UNCHANGED <<users, outbox>>
           ELSE /\ users' = [users EXCEPT ![username] = UserRow(FALSE, password1)]
                /\ outbox' = outbox + 1
                /\ response' = Redirect("register_post", success_url, request, succes_message)

ActivateGet(pk, token) ==
    LET request == Request(session, [NoData EXCEPT !.username = pk, !.token = token])
    IN  /\ UNCHANGED <<session, outbox>>
        /\ IF check_token(pk, token)
           THEN /\ users' = [users EXCEPT ![pk].is_active = TRUE]
                /\ response' = Redirect("activate_get", ActivateAccountView_url, request, confirmed_message)
           ELSE /\ UNCHANGED users
                /\ response' \in {Redirect("activate_get", ActivateAccountView_url, request, NoMessage),
                                  NotFound("activate_get", request)}

\* ------------------------------------------------------------ specifications
Fixtures ==
    \/ \E u \in Pks, active \in BOOLEAN, pw \in Passwords : baker_make(u, active, pw)
    \/ \E u \in Pks : force_login(u)

\* the three registration views driven by the test client
NextViews ==
    \/ Fixtures
    \/ LoginGet
    \/ \E username \in Pks \cup {Anonymous}, password \in Passwords \cup Typos \cup {NoValue} :
          LoginPost(username, password)
    \/ SignUpGet
    \/ \E username \in Pks \cup {Anonymous}, email \in Emails \cup {NoValue},
          password1 \in Passwords \cup {NoValue},
          password2 \in Passwords \cup Typos \cup {NoValue} :
          SignUpPost(username, email, password1, password2)
    \/ \E pk \in Pks, token \in Tokens : ActivateGet(pk, token)

SpecViews == Init /\ [][NextViews]_vars

\* template renders for sessions of users with and without Profile rows
NextLanguage ==
    \/ Fixtures
    \/ \E u \in Pks, lan \in ProfileLanguages : save_profile(u, lan)
    \/ PageGet
    \/ LoginGet
    \/ SignUpGet

SpecLanguage == Init /\ [][NextLanguage]_vars

TypeOK ==
    /\ LANGUAGE_CODE \in Languages
    /\ session \in Pks \cup {Anonymous}
    /\ outbox \in 0..NumUsers
    /\ \A u \in Pks : users[u].profile \in ProfileLanguages \cup {DoesNotExist}
    /\ response.status \in {0, 200, 302, 404, 500}

\* ------------------------------------------------------------ properties
Called == response.context.kind # "none"          \* language(request) ran
RequestUser == response.wsgi_request.user
POST == response.wsgi_request.POST

\* C1: for a request of an unauthenticated user, language(request) does not
\* raise, does not read request.user.profile, and returns the global default
\* settings.LANGUAGE_CODE under 'lan'.
C1_AnonymousDefault ==
    (Called /\ ~RequestUser.is_authenticated) =>
        /\ response.context.kind = "return"
        /\ response.context.read # "profile"
        /\ response.context.lan = LANGUAGE_CODE

C1_Witness ==
    /\ response.op = "page_get"
    /\ ~RequestUser.is_authenticated
    /\ response.context.kind = "return"
    /\ \E u \in Pks : users[u].exists /\ users[u].profile \in Languages \ {LANGUAGE_CODE}

\* C2: for a request of an authenticated user who has a profile,
\* language(request) returns the profile's language under 'lan', whatever
\* settings.LANGUAGE_CODE is; the settings default is used only for
\* unauthenticated users.
C2_ProfileLanguage ==
    /\ (Called /\ RequestUser.is_authenticated
          /\ RequestUser.profile \notin {NoAttribute, DoesNotExist}) =>
            /\ response.context.kind = "return"
            /\ response.context.lan = RequestUser.profile
    /\ (Called /\ response.context.read = "settings") => ~RequestUser.is_authenticated

C2_Witness ==
    /\ response.op = "page_get"
    /\ RequestUser.is_authenticated
    /\ response.context.kind = "return"
    /\ response.context.lan \in Languages \ {LANGUAGE_CODE}

\* C3: language(request) always returns a language code string under 'lan',
\* for every request and every state of the user's profile: it never raises
\* and never returns an empty or missing value.
C3_AlwaysLanguageCode ==
    Called => (response.context.kind = "return" /\ response.context.lan \in Languages)

\* C7: a GET of the login or register page answers 200 with the view's own
\* template to an anonymous session, and a 302 redirect without the form to a
\* session that is already authenticated.
C7_GetAnonymousOrRedirect ==
    /\ response.op = "login_get" =>
          IF RequestUser.is_authenticated
          THEN response.status = 302 /\ response.template = NoTemplate
          ELSE response.status = 200 /\ response.template = "registration/login.html"
    /\ response.op = "register_get" =>
          IF RequestUser.is_authenticated
          THEN response.status = 302 /\ response.template = NoTemplate
          ELSE response.status = 200 /\ response.template = "registration/register.html"

C7_Witness ==
    /\ response.op = "register_get"
    /\ RequestUser.is_authenticated
    /\ response.status = 302
    /\ session = RequestUser.pk

\* the POST data and the target user of the request a step answers
POST1 == response'.wsgi_request.POST
IsLoginPost == response'.op = "login_post" /\ LoginPost(POST1.username, POST1.password)
IsSignUpPost ==
    /\ response'.op = "register_post"
    /\ SignUpPost(POST1.username, POST1.email, POST1.password1, POST1.password2)
IsActivateGet == response'.op = "activate_get" /\ ActivateGet(POST1.username, POST1.token)
CredentialsOf(u) == Exists(u) /\ users[u].password = POST1.password

\* C4: from an unauthenticated session, a POST to login with the username and
\* current password of an existing active user leaves the session
\* authenticated as that user.
C4_LoginAuthenticates ==
    [][(IsLoginPost /\ session = Anonymous /\ CredentialsOf(POST1.username)
          /\ users[POST1.username].is_active)
        => (session' = POST1.username /\ get_user(session').is_authenticated)]_vars

C4_Witness ==
    /\ response.op = "login_post"
    /\ ~RequestUser.is_authenticated
    /\ Exists(POST.username) /\ users[POST.username].password = POST.password
    /\ session = POST.username

C6_InvalidCredentials ==
    [][(IsLoginPost /\ session = Anonymous /\ ~CredentialsOf(POST1.username))
        => /\ response'.status = 200
           /\ response'.template = "registration/login.html"
           /\ session' = Anonymous]_vars

C6_Witness ==
    /\ response.op = "login_post"
    /\ ~RequestUser.is_authenticated
    /\ POST.username \in Pks /\ ~Exists(POST.username)
    /\ POST.password # NoValue
    /\ response.status = 200
    /\ session = Anonymous

\* C8: a POST to register from an anonymous session with a fresh username, an
\* email and two equal passwords creates the User row, sends exactly one
\* email, and emits 'User created! Please confirm your email.'.
C8_RegisterCreates ==
    [][(IsSignUpPost /\ session = Anonymous
          /\ POST1.username \in Pks /\ ~Exists(POST1.username)
          /\ POST1.email # NoValue
          /\ POST1.password1 # NoValue /\ POST1.password1 = POST1.password2)
        => /\ users'[POST1.username].exists
           /\ outbox' = outbox + 1
           /\ response'.message = "User created! Please confirm your email."]_vars

C8_Witness ==
    /\ response.op = "register_post"
    /\ ~RequestUser.is_authenticated
    /\ response.message = succes_message
    /\ Exists(POST.username)
    /\ outbox = 1

\* C9: a POST to register (anonymous session) that omits required fields gets
\* 'This field is required.' on exactly the omitted fields, one whose
\* password2 differs from password1 gets 'The two password fields didn't
\* match.' on password2; either way the form is re-rendered with the errors
\* and nothing is registered.
Omitted(data) ==
    {f \in Fields : \/ f = "username" /\ data.username = Anonymous
                    \/ f = "email" /\ data.email = NoValue
                    \/ f = "password1" /\ data.password1 = NoValue
                    \/ f = "password2" /\ data.password2 = NoValue}

Mismatched(data) ==
    data.password1 # NoValue /\ data.password2 # NoValue /\ data.password1 # data.password2

Rejected ==
    /\ response'.status = 200
    /\ response'.template = "registration/register.html"
    /\ users' = users
    /\ outbox' = outbox

C10_Activation ==
    [][(IsActivateGet /\ Exists(POST1.username) /\ ~users[POST1.username].is_active
          /\ POST1.token = make_token(POST1.username))
        => /\ response'.status = 302
           /\ response'.redirect = ActivateAccountView_url
           /\ users'[POST1.username].is_active
           /\ response'.message = "Your email has been confirmed!"]_vars

C10_Witness ==
    /\ response.op = "activate_get"
    /\ Exists(POST.username) /\ users[POST.username].is_active
    /\ POST.token = make_token(POST.username)
    /\ response.message = confirmed_message
    /\ response.status = 302
    /\ session = Anonymous

====
